---- MODULE Spec2Model ----
(***************************************************************************)
(* steam-rss (src/source/main.rs): resolution of application ids, store    *)
(* URLs and community users into feed candidates, verification of every    *)
(* candidate over HTTP, and the emission of the surviving feeds.           *)
(*                                                                         *)
(* Strings the program parses (inputs, feed bodies) are sequences of       *)
(* one-character strings.  Strings the program only builds with format!    *)
(* are sequences of pieces: the literal parts of the format string are     *)
(* single pieces, the argument is spliced in between.  A usize is kept as  *)
(* its canonical decimal digits (what Display prints), because 2^64        *)
(* is outside the range of the model checker's integers.                   *)
(***************************************************************************)
EXTENDS Integers, Sequences, FiniteSets, TLC

\* ------------------------------------------------------------------ Option

None == [some |-> FALSE]
Some(x) == [some |-> TRUE, val |-> x]
IsSome(o) == o.some

\* ------------------------------------------------------------- characters

UPPER ==
  <<"A", "B", "C", "D", "E", "F", "G", "H", "I", "J", "K", "L", "M",
    "N", "O", "P", "Q", "R", "S", "T", "U", "V", "W", "X", "Y", "Z">>
LOWER ==
  <<"a", "b", "c", "d", "e", "f", "g", "h", "i", "j", "k", "l", "m",
    "n", "o", "p", "q", "r", "s", "t", "u", "v", "w", "x", "y", "z">>
DIGITS ==
  <<"0", "1", "2", "3", "4", "5", "6", "7", "8", "9">>

Range(s) == {s[k] : k \in 1..Len(s)}

\* Simple case folding of the regex crate's (?i) flag, on ASCII.
Fold(c) ==
  IF c \in Range(UPPER)
    THEN LOWER[CHOOSE k \in 1..Len(UPPER) : UPPER[k] = c]
    ELSE c

\* \d and \w of the regex crate, on ASCII.
IsDigit(c) == c \in Range(DIGITS)
IsWord(c) == c \in Range(UPPER) \cup Range(LOWER) \cup Range(DIGITS) \cup {"_"}
DigitVal(c) == (CHOOSE k \in 1..Len(DIGITS) : DIGITS[k] = c) - 1

\* The regex atom "." matches any character but a line feed; the other
\* atoms of the patterns below are literal characters.
ANY == "ANY"
AtomMatches(atom, c, fold) ==
  IF atom = ANY THEN c # "\n"
  ELSE IF fold THEN Fold(atom) = Fold(c)
  ELSE atom = c

\* The atoms pat match s from position pos on.
MatchesAt(s, pos, pat, fold) ==
  /\ pos >= 1
  /\ pos + Len(pat) - 1 <= Len(s)
  /\ \A k \in 1..Len(pat) : AtomMatches(pat[k], s[pos + k - 1], fold)

\* The length of the longest run of characters satisfying Class(_) that
\* starts at pos: a greedy  \d+  or  \w+ .
RECURSIVE RunLen(_, _, _)
RunLen(s, pos, digitsOnly) ==
  IF pos > Len(s) THEN 0
  ELSE IF (IF digitsOnly THEN IsDigit(s[pos]) ELSE IsWord(s[pos]))
    THEN 1 + RunLen(s, pos + 1, digitsOnly)
    ELSE 0

\* str::find: the first position (1-based) at which pat occurs in s, 0 when
\* it does not occur.
RECURSIVE FindFrom(_, _, _)
FindFrom(s, pat, p) ==
  IF p + Len(pat) - 1 > Len(s) THEN 0
  ELSE IF MatchesAt(s, p, pat, FALSE) THEN p
  ELSE FindFrom(s, pat, p + 1)

Find(s, pat) == FindFrom(s, pat, 1)

\* ---------------------------------------------------------------- usize

USIZE_MAX ==
  <<"1", "8", "4", "4", "6", "7", "4", "4", "0", "7",
    "3", "7", "0", "9", "5", "5", "1", "6", "1", "5">>

RECURSIVE StripZeros(_)
StripZeros(ds) ==
  IF Len(ds) > 1 /\ ds[1] = "0" THEN StripZeros(Tail(ds)) ELSE ds

\* a <= b for two digit strings of the same length.
RECURSIVE DigitsLeq(_, _)
DigitsLeq(a, b) ==
  IF a = <<>> THEN TRUE
  ELSE IF DigitVal(a[1]) < DigitVal(b[1]) THEN TRUE
  ELSE IF DigitVal(a[1]) > DigitVal(b[1]) THEN FALSE
  ELSE DigitsLeq(Tail(a), Tail(b))

\* str::parse::<usize>().ok() of a non-empty run of digits: the value, as
\* canonical digits, or None when it exceeds usize::MAX.
ParseUsize(ds) ==
  LET c == StripZeros(ds)
  IN IF Len(c) < Len(USIZE_MAX) \/ (Len(c) = Len(USIZE_MAX) /\ DigitsLeq(c, USIZE_MAX))
       THEN Some(c)
       ELSE None

\* ----------------------------------------------------------- URL builder

appid_to_rss_url(appid) ==
  <<"https://steamcommunity.com/games/">> \o appid \o <<"/rss/">>

userid_to_games_url(userid) ==
  <<"https://steamcommunity.com/id/">> \o userid \o <<"/games/?tab=all">>

\* ------------------------------------------------------ input extractors

LIT_HTTP == <<"h", "t", "t", "p">>
LIT_HTTPS == <<"h", "t", "t", "p", "s">>
STORE_HOST_PATH ==
  <<":", "/", "/", "s", "t", "o", "r", "e", ANY, "s", "t", "e", "a", "m",
    "p", "o", "w", "e", "r", "e", "d", ANY, "c", "o", "m", "/", "a", "p", "p", "/">>
COMMUNITY_HOST_PATH ==
  <<":", "/", "/", "s", "t", "e", "a", "m", "c", "o", "m", "m", "u", "n",
    "i", "t", "y", ANY, "c", "o", "m", "/", "i", "d", "/">>

\* The position after a match of  https?  followed by rest  at pos, with
\* (?i); 0 when there is none.
SchemeEnd(s, pos, rest) ==
  IF MatchesAt(s, pos, LIT_HTTPS \o rest, TRUE) THEN pos + Len(LIT_HTTPS) + Len(rest)
  ELSE IF MatchesAt(s, pos, LIT_HTTP \o rest, TRUE) THEN pos + Len(LIT_HTTP) + Len(rest)
  ELSE 0

\* Variant: the host is not matched, any  /app/<digits>  is taken.
store_url_regex_AnyHost(url) ==
  LET p == FindFrom(url, <<"/", "a", "p", "p", "/">>, 1)
      n == IF p = 0 THEN 0 ELSE RunLen(url, p + 5, TRUE)
  IN IF n = 0 THEN None ELSE Some(SubSeq(url, p + 5, p + 5 + n - 1))

\* (?i)^https?://store.steampowered.com/app/(?P<appid>\d+)  : the capture
\* named appid, or None.
store_url_regex(url) ==
  LET e == SchemeEnd(url, 1, STORE_HOST_PATH)
      n == IF e = 0 THEN 0 ELSE RunLen(url, e, TRUE)
  IN IF n = 0 THEN None ELSE Some(SubSeq(url, e, e + n - 1))

\* The appid of a --url input.
StoreUrlAppid(url) ==
  LET m == store_url_regex(url)
  IN IF IsSome(m) THEN ParseUsize(m.val) ELSE None

\* (i?)^\w+$  : is_match.  The group (i?) matches the empty string before
\* the anchor, so the pattern is  ^\w+$ .
user_id_regex(user) ==
  Len(user) >= 1 /\ RunLen(user, 1, FALSE) = Len(user)

\* (?i)https?://steamcommunity.com/id/(?P<userid>\w+)  : the capture named
\* userid of the leftmost match, or None.
user_url_regex(user) ==
  LET hits == {p \in 1..Len(user) :
                 LET e == SchemeEnd(user, p, COMMUNITY_HOST_PATH)
                 IN e # 0 /\ RunLen(user, e, FALSE) > 0}
  IN IF hits = {} THEN None
     ELSE LET p == CHOOSE q \in hits : \A r \in hits : q <= r
              e == SchemeEnd(user, p, COMMUNITY_HOST_PATH)
          IN Some(SubSeq(user, e, e + RunLen(user, e, FALSE) - 1))

\* The games URL of a --user input, or None when the input is skipped.
UserGamesUrl(user) ==
  IF user_id_regex(user) THEN Some(userid_to_games_url(user))
  ELSE IF IsSome(user_url_regex(user))
    THEN Some(userid_to_games_url(user_url_regex(user).val))
  ELSE None

\* ------------------------------------------------------------- the Feed

\* struct Feed { friendly_url, text, url }
Feed(friendly_url, text, url) ==
  [friendly_url |-> friendly_url, text |-> text, url |-> url]

\* The feed pushed for an --appid input and for a --url input.
FeedOfAppid(appid) ==
  Feed(None, Some(<<"Steam AppID ">> \o appid), appid_to_rss_url(appid))

\* The feed pushed for one game of a user's games page.  friendly_url is a
\* serde_json::Value: only a JSON string gives an alternate URL.
FriendlyUrlOf(game) ==
  IF game.friendly_url.type = "string"
    THEN Some(appid_to_rss_url(game.friendly_url.str))
    ELSE None

FeedOfGame(game) ==
  Feed(FriendlyUrlOf(game), Some(game.name), appid_to_rss_url(game.appid))

\* ------------------------------------------------- the user's games page

(***************************************************************************)
(* A games page is a sequence of lexical tokens: pieces of text, and JSON  *)
(* objects as records of their members.  A JSON value is a record with its *)
(* type; a number is kept as its digits.                                   *)
(***************************************************************************)
Text(s) == [t |-> s]
Object(members) == [t |-> "object", members |-> members]
JString(s) == [type |-> "string", str |-> s]
JNumber(ds) == [type |-> "number", digits |-> ds]
JFalse == [type |-> "bool", bool |-> FALSE]

VAR_RGGAMES == Text("var rgGames = ")
IsSpace(tok) == tok.t \in {" ", "\n", "\t"}

\* var rgGames = (?P<json>\[.+\]);\s+var  : whether the match that starts
\* at token p can end its capture at token q.
JsonMatch(body, p, q) ==
  /\ body[p] = VAR_RGGAMES
  /\ p + 1 <= Len(body) /\ body[p + 1] = Text("[")
  /\ q >= p + 3 /\ q + 3 <= Len(body)
  /\ \A k \in (p + 2)..(q - 1) : body[k] # Text("\n")
  /\ body[q] = Text("]")
  /\ body[q + 1] = Text(";")
  /\ \E e \in (q + 3)..Len(body) :
       /\ body[e] = Text("var")
       /\ \A k \in (q + 2)..(e - 1) : IsSpace(body[k])

\* The capture named json of the leftmost match, the greedy  .+  taking
\* the longest capture; None when the pattern does not match.
user_json_regex(body) ==
  LET starts == {p \in 1..Len(body) : \E q \in 1..Len(body) : JsonMatch(body, p, q)}
  IN IF starts = {} THEN None
     ELSE LET p == CHOOSE a \in starts : \A b \in starts : a <= b
              ends == {q \in 1..Len(body) : JsonMatch(body, p, q)}
              q == CHOOSE a \in ends : \A b \in ends : a >= b
          IN Some(SubSeq(body, p + 1, q))

\* Deserialize of struct SteamApp from one JSON object: every member is
\* required, appid is a usize (a JSON number has no leading zero), name a
\* string, friendlyURL any value; other members are ignored.
DeserializeSteamApp(tok) ==
  IF /\ tok.t = "object"
     /\ {"appid", "name", "friendlyURL"} \subseteq DOMAIN tok.members
     /\ tok.members.appid.type = "number"
     /\ StripZeros(tok.members.appid.digits) = tok.members.appid.digits
     /\ IsSome(ParseUsize(tok.members.appid.digits))
     /\ tok.members.name.type = "string"
    THEN Some([appid |-> ParseUsize(tok.members.appid.digits).val,
               name |-> tok.members.name.str,
               friendly_url |-> tok.members.friendlyURL])
    ELSE None

\* serde_json::from_str::<Vec<SteamApp>>: one array of objects and nothing
\* after it, white space allowed between the tokens; None is Err.
ParseGames(json) ==
  LET toks == SelectSeq(json, LAMBDA tok : ~IsSpace(tok))
      n == Len(toks)
      inner == SubSeq(toks, 2, n - 1)
  IN IF /\ n >= 2
        /\ toks[1] = Text("[")
        /\ toks[n] = Text("]")
        /\ (inner = <<>> \/ Len(inner) % 2 = 1)
        /\ \A k \in 1..Len(inner) :
             IF k % 2 = 1 THEN IsSome(DeserializeSteamApp(inner[k]))
                          ELSE inner[k] = Text(",")
       THEN Some([k \in 1..((Len(inner) + 1) \div 2) |->
                    DeserializeSteamApp(inner[2 * k - 1]).val])
       ELSE None

\* The two lines printed for a page without the games array.
ScanDiagnostic(user_url) ==
  << <<"Couldn't scan games from: ">> \o user_url,
     <<"Make sure \"Game Details\" in Privacy Settings is set to Public.">> >>

\* Variant: a page without the games array ends the run with an error.
ScrapeUser_AbortOnPrivate(user_url, resp) ==
  IF resp.kind # "ok" \/ ~IsSome(user_json_regex(resp.body))
    THEN [end |-> "error", feeds |-> <<>>, diag |-> <<>>]
  ELSE IF IsSome(ParseGames(user_json_regex(resp.body).val))
    THEN [end |-> "next",
          feeds |-> [k \in 1..Len(ParseGames(user_json_regex(resp.body).val).val) |->
                       FeedOfGame(ParseGames(user_json_regex(resp.body).val).val[k])],
          diag |-> <<>>]
  ELSE [end |-> "error", feeds |-> <<>>, diag |-> <<>>]

\* One --user input whose games URL is user_url, given the response to the
\* GET of that URL: the end of the iteration (Err returned by main, or the
\* next iteration), the feeds pushed and the lines printed to stderr.
ScrapeUser(user_url, resp) ==
  IF resp.kind # "ok" THEN [end |-> "error", feeds |-> <<>>, diag |-> <<>>]
  ELSE LET games_json == user_json_regex(resp.body)
       IN IF IsSome(games_json)
            THEN LET games == ParseGames(games_json.val)
                 IN IF IsSome(games)
                      THEN [end |-> "next",
                            feeds |-> [k \in 1..Len(games.val) |-> FeedOfGame(games.val[k])],
                            diag |-> <<>>]
                      ELSE [end |-> "error", feeds |-> <<>>, diag |-> <<>>]
            ELSE [end |-> "next", feeds |-> <<>>, diag |-> ScanDiagnostic(user_url)]

\* ---------------------------------------------------------- verification

TITLE_OPEN == <<"<", "t", "i", "t", "l", "e", ">">>
TITLE_CLOSE == <<"<", "/", "t", "i", "t", "l", "e", ">">>
TitleOpenLen == 7

\* body[title_start..title_end] for the results open and close of the two
\* calls of str::find (1-based, 0 for None): None when an unwrap or the
\* slice panics.
TitleSlice(body, open, close) ==
  IF open = 0 \/ close = 0 THEN None
  ELSE IF (open - 1) + TitleOpenLen > close - 1 THEN None
  ELSE Some(SubSeq(body, (open - 1) + TitleOpenLen + 1, close - 1))

TitleOf(body) == TitleSlice(body, Find(body, TITLE_OPEN), Find(body, TITLE_CLOSE))

\* response.content_type() == "text/xml"
IsXml(content_type) == content_type = "text/xml"

\* Variant: a failed GET counts as a response that is no feed.
verify_feed_IgnoreFailure(resp) ==
  IF resp.kind = "ok"
    THEN Some([is_valid |-> IsXml(resp.content_type), body |-> resp.body])
    ELSE Some([is_valid |-> FALSE, body |-> <<>>])

\* The closure verify_feed on the response to its GET: (is_valid, body), or
\* None for Err (call() or into_string() failed).
verify_feed(resp) ==
  IF resp.kind = "ok"
    THEN Some([is_valid |-> IsXml(resp.content_type), body |-> resp.body])
    ELSE None

\* Variant: the friendly URL is tried whenever there is one.
TriesFriendly_Always(feed, is_valid) == IsSome(feed.friendly_url)

\* Whether the friendly URL is tried after the first response.
TriesFriendly(feed, is_valid) == ~is_valid /\ IsSome(feed.friendly_url)

\* Variant: the URL is never replaced.
UrlAfterFriendly_Keep(feed, is_valid) == feed.url

\* potential_feed.url after the answer to the GET of the friendly URL.
UrlAfterFriendly(feed, is_valid) ==
  IF is_valid THEN feed.friendly_url.val ELSE feed.url

\* One iteration of the verification loop for feed, given the responses r1
\* (to the GET of feed.url) and r2 (to the GET of the friendly URL, when it
\* is tried): the GETs made, how the iteration ends (Err returned by main,
\* a panic, continue, or a push) and the feed pushed.
VerifyEnd(feed, gets, v, url, title) ==
  IF ~v.is_valid THEN [end |-> "continue", gets |-> gets]
  ELSE IF ~IsSome(title) THEN [end |-> "panic", gets |-> gets]
  ELSE [end |-> "push", gets |-> gets, feed |-> Feed(feed.friendly_url, title, url)]

VerifyOne(feed, r1, r2) ==
  LET v1 == verify_feed(r1)
      get1 == [url |-> feed.url, resp |-> r1]
  IN IF ~IsSome(v1) THEN [end |-> "error", gets |-> <<get1>>]
     ELSE IF ~TriesFriendly(feed, v1.val.is_valid)
       THEN VerifyEnd(feed, <<get1>>, v1.val, feed.url, TitleOf(v1.val.body))
     ELSE LET v2 == verify_feed(r2)
              gets == <<get1, [url |-> feed.friendly_url.val, resp |-> r2]>>
          IN IF ~IsSome(v2) THEN [end |-> "error", gets |-> gets]
             ELSE VerifyEnd(feed, gets, v2.val, UrlAfterFriendly(feed, v2.val.is_valid),
                            TitleOf(v2.val.body))

\* ---------------------------------------------- inputs and HTTP responses

MaxInputs == 2

APPID_620 == <<"6", "2", "0">>

URL_STORE_UPPER ==
  <<"H", "T", "T", "P", ":", "/", "/", "S", "T", "O", "R", "E", ".", "S", "T",
    "E", "A", "M", "P", "O", "W", "E", "R", "E", "D", ".", "C", "O", "M", "/",
    "A", "P", "P", "/", "0", "4", "0", "0", "/", "x">>
URL_EXAMPLE ==
  <<"h", "t", "t", "p", "s", ":", "/", "/", "e", "x", "a", "m", "p", "l", "e",
    ".", "c", "o", "m", "/", "a", "p", "p", "/", "4", "0", "0">>
URL_OVERFLOW ==
  <<"h", "t", "t", "p", "s", ":", "/", "/", "s", "t", "o", "r", "e", ".", "s",
    "t", "e", "a", "m", "p", "o", "w", "e", "r", "e", "d", ".", "c", "o", "m",
    "/", "a", "p", "p", "/", "1", "8", "4", "4", "6", "7", "4", "4", "0", "7",
    "3", "7", "0", "9", "5", "5", "1", "6", "1", "6">>

USER_BARE == <<"b", "o", "b", "_", "1">>
USER_PROFILE ==
  <<"s", "e", "e", " ", "H", "T", "T", "P", "S", ":", "/", "/", "s", "t", "e",
    "a", "m", "c", "o", "m", "m", "u", "n", "i", "t", "y", ".", "c", "o", "m",
    "/", "i", "d", "/", "A", "l", "1", "c", "e", "/", "h", "o", "m", "e">>
USER_BAD == <<"b", "o", "b", "?">>

AppidInputs == {APPID_620}
UrlInputs == {URL_STORE_UPPER, URL_EXAMPLE, URL_OVERFLOW}
UserInputs == {USER_BARE, USER_PROFILE, USER_BAD}

\* Sequences of at most n elements of S.
SeqsUpTo(S, n) == UNION {[1..k -> S] : k \in 0..n}

\* The command lines: at most MaxInputs --appid, --url and --user options
\* in all, with or without --opml and --verify.
ArgsSet ==
  {a \in [appid : SeqsUpTo(AppidInputs, MaxInputs),
          url : SeqsUpTo(UrlInputs, MaxInputs),
          user : SeqsUpTo(UserInputs, MaxInputs),
          opml : BOOLEAN, verify : BOOLEAN] :
     Len(a.appid) + Len(a.url) + Len(a.user) <= MaxInputs}

\* The answers of the HTTP agent to a GET: a response with its content type
\* and body, a failed call(), or a response whose body cannot be read.
Ok(content_type, body) == [kind |-> "ok", content_type |-> content_type, body |-> body]
CallFailed == [kind |-> "call failed"]
Unreadable == [kind |-> "unreadable"]

OBJ_PORTAL ==
  Object([appid |-> JNumber(<<"4", "0", "0">>), name |-> JString(<<"Portal">>),
          friendlyURL |-> JString(<<"Portal">>)])
OBJ_PORTAL2 ==
  Object([appid |-> JNumber(<<"6", "2", "0">>), name |-> JString(<<"Portal 2">>),
          friendlyURL |-> JFalse])
OBJ_HL2 ==
  Object([appid |-> JNumber(<<"2", "2", "0">>), name |-> JString(<<"Half-Life 2">>),
          friendlyURL |-> JFalse, hours |-> JNumber(<<"7">>)])

\* A private profile: no games array.
PAGE_PRIVATE ==
  <<Text("<html>"), Text("\n"), Text("var"), Text(" "), Text("["), Text("]"),
    Text(";"), Text("\n"), Text("</html>")>>
PAGE_ONE ==
  <<Text("<script>"), VAR_RGGAMES, Text("["), OBJ_HL2, Text("]"), Text(";"),
    Text("\n"), Text("\t"), Text("var"), Text(" rgChangingGames = "), Text("["),
    Text("]"), Text(";"), Text("\n"), Text("var"), Text("</script>")>>
PAGE_TWO ==
  <<Text("\n"), VAR_RGGAMES, Text("["), OBJ_PORTAL, Text(","), Text(" "),
    OBJ_PORTAL2, Text("]"), Text(";"), Text(" "), Text("var"), Text("\n")>>
\* The games array and a later array on one line: the greedy capture runs
\* to the later array, and is not a JSON array.
PAGE_ONE_LINE ==
  <<VAR_RGGAMES, Text("["), OBJ_PORTAL, Text("]"), Text(";"), Text(" "),
    Text("var"), Text(" rgChangingGames = "), Text("["), Text("]"), Text(";"),
    Text(" "), Text("var")>>

PageResponses ==
  {CallFailed, Unreadable,
   Ok("text/html", PAGE_PRIVATE), Ok("text/html", PAGE_ONE),
   Ok("text/html", PAGE_TWO), Ok("text/html", PAGE_ONE_LINE)}

BODY_FEED ==
  <<"<", "r", "s", "s", ">">> \o TITLE_OPEN \o <<"M", "y", " ", "F", "e", "e", "d">>
    \o TITLE_CLOSE \o TITLE_OPEN \o <<"n", "e", "w", "s">> \o TITLE_CLOSE
BODY_NO_TITLE == <<"<", "r", "s", "s", ">", "<", "/", "r", "s", "s", ">">>
BODY_NO_CLOSE == TITLE_OPEN \o <<"M", "y">>
BODY_CLOSE_FIRST ==
  TITLE_CLOSE \o TITLE_OPEN \o <<"M", "y">> \o TITLE_CLOSE

FeedResponses ==
  {CallFailed, Unreadable,
   Ok("text/xml", BODY_FEED), Ok("text/html", BODY_FEED),
   Ok("text/xml", BODY_NO_TITLE), Ok("text/xml", BODY_NO_CLOSE),
   Ok("text/xml", BODY_CLOSE_FIRST)}

\* ------------------------------------------------------------ the state

VARIABLES
  args,             \* the parsed command line
  pc,               \* the loop of main that control is in
  i,                \* the index of the element that loop handles next
  potential_feeds,
  feeds_to_output,
  stdout,           \* the lines printed to standard output
  stderr,           \* the lines printed to standard error by main
  outcome,          \* "running", or how main ended: "ok", "error", "panic"
  http,             \* history: every GET made, with its response
  collected,        \* history: every feed ever pushed to potential_feeds
  survivors         \* history: for each of feeds_to_output, its index in collected

vars ==
  <<args, pc, i, potential_feeds, feeds_to_output, stdout, stderr, outcome,
    http, collected, survivors>>

\* The loop control enters when it reaches loop p with the feeds collected:
\* a for loop over an empty vector is passed over.
RECURSIVE Enter(_, _, _)
Enter(a, p, feeds) ==
  CASE p = "appid" -> IF a.appid # <<>> THEN p ELSE Enter(a, "url", feeds)
    [] p = "url" -> IF a.url # <<>> THEN p ELSE Enter(a, "user", feeds)
    [] p = "user" -> IF a.user # <<>> THEN p ELSE Enter(a, "verify", feeds)
    [] p = "verify" -> IF ~a.verify THEN "append"
                       ELSE IF feeds # <<>> THEN p ELSE "output"
    [] p = "output" -> p

Following(p) ==
  CASE p = "appid" -> "url" [] p = "url" -> "user" [] p = "user" -> "verify"
    [] p = "verify" -> "output"

\* The end of one iteration of loop pc over n elements.
NextIteration(n, feeds) ==
  IF i < n
    THEN pc' = pc /\ i' = i + 1
    ELSE pc' = Enter(args, Following(pc), feeds) /\ i' = 1

Init ==
  /\ args \in ArgsSet
  /\ pc = Enter(args, "appid", <<>>)
  /\ i = 1
  /\ potential_feeds = <<>>
  /\ feeds_to_output = <<>>
  /\ stdout = <<>>
  /\ stderr = <<>>
  /\ outcome = "running"
  /\ http = <<>>
  /\ collected = <<>>
  /\ survivors = <<>>

\* for appid in args.appid
CollectAppid ==
  /\ outcome = "running" /\ pc = "appid"
  /\ LET feeds == Append(potential_feeds, FeedOfAppid(args.appid[i]))
     IN /\ potential_feeds' = feeds
        /\ collected' = Append(collected, FeedOfAppid(args.appid[i]))
        /\ NextIteration(Len(args.appid), feeds)
  /\ UNCHANGED <<args, feeds_to_output, stdout, stderr, outcome, http, survivors>>

\* The feeds one --url input pushes.
FeedsOfUrl(url) ==
  IF IsSome(StoreUrlAppid(url)) THEN <<FeedOfAppid(StoreUrlAppid(url).val)>> ELSE <<>>

\* for url in args.url
CollectUrl ==
  /\ outcome = "running" /\ pc = "url"
  /\ LET feeds == potential_feeds \o FeedsOfUrl(args.url[i])
     IN /\ potential_feeds' = feeds
        /\ collected' = collected \o FeedsOfUrl(args.url[i])
        /\ NextIteration(Len(args.url), feeds)
  /\ UNCHANGED <<args, feeds_to_output, stdout, stderr, outcome, http, survivors>>

\* for user in args.user
CollectUser ==
  /\ outcome = "running" /\ pc = "user"
  /\ LET user_url == UserGamesUrl(args.user[i])
     IN IF ~IsSome(user_url)
          THEN /\ NextIteration(Len(args.user), potential_feeds)
               /\ UNCHANGED <<potential_feeds, collected, stderr, outcome, http>>
          ELSE \E resp \in PageResponses :
                 \E r \in {ScrapeUser(user_url.val, resp)} :
                 LET feeds == potential_feeds \o r.feeds
                 IN /\ http' = Append(http, [url |-> user_url.val, resp |-> resp, cand |-> 0])
                    /\ potential_feeds' = feeds
                    /\ collected' = collected \o r.feeds
                    /\ stderr' = stderr \o r.diag
                    /\ IF r.end = "error"
                         THEN outcome' = "error" /\ UNCHANGED <<pc, i>>
                         ELSE outcome' = outcome /\ NextIteration(Len(args.user), feeds)
  /\ UNCHANGED <<args, feeds_to_output, stdout, survivors>>

\* for mut potential_feed in potential_feeds  (with --verify)
VerifyFeed ==
  /\ outcome = "running" /\ pc = "verify"
  /\ \E r1 \in FeedResponses :
       \E r2 \in (IF IsSome(verify_feed(r1))
                     /\ TriesFriendly(potential_feeds[i], verify_feed(r1).val.is_valid)
                    THEN FeedResponses ELSE {r1}) :
         \E r \in {VerifyOne(potential_feeds[i], r1, r2)} :
            /\ http' = http \o [k \in 1..Len(r.gets) |->
                                  [url |-> r.gets[k].url, resp |-> r.gets[k].resp, cand |-> i]]
            /\ IF r.end = "push"
                 THEN /\ feeds_to_output' = Append(feeds_to_output, r.feed)
                      /\ survivors' = Append(survivors, i)
                 ELSE UNCHANGED <<feeds_to_output, survivors>>
            /\ IF r.end \in {"error", "panic"}
                 THEN outcome' = r.end /\ UNCHANGED <<pc, i>>
                 ELSE outcome' = outcome /\ NextIteration(Len(potential_feeds), potential_feeds)
  /\ UNCHANGED <<args, potential_feeds, stdout, stderr, collected>>

\* feeds_to_output.append(&mut potential_feeds)  (without --verify)
AppendAll ==
  /\ outcome = "running" /\ pc = "append"
  /\ feeds_to_output' = feeds_to_output \o potential_feeds
  /\ survivors' = survivors \o [k \in 1..Len(potential_feeds) |-> k]
  /\ potential_feeds' = <<>>
  /\ pc' = "output"
  /\ UNCHANGED <<args, i, stdout, stderr, outcome, http, collected>>

\* The OPML encoder: the document of the feeds added to it, one outline
\* (text and title, xmlUrl) for each, in the order they were added.
RECURSIVE Outlines(_)
Outlines(feeds) ==
  IF feeds = <<>> THEN <<>>
  ELSE LET feed == feeds[1]
           text == IF IsSome(feed.text) THEN feed.text.val ELSE feed.url
       IN <<"<outline text=">> \o text \o <<" xmlUrl=">> \o feed.url \o <<"/>">>
            \o Outlines(Tail(feeds))

OpmlDocument(feeds) == <<"<opml><body>">> \o Outlines(feeds) \o <<"</body></opml>">>

\* Variant: without the empty check, the output loop runs over no feeds.
Emit_NoEmptyCheck(feeds, opml, encoded) ==
  IF opml
    THEN IF encoded THEN [end |-> "ok", out |-> <<OpmlDocument(feeds)>>, err |-> <<>>]
                    ELSE [end |-> "error", out |-> <<>>, err |-> <<>>]
  ELSE [end |-> "ok", out |-> [k \in 1..Len(feeds) |-> feeds[k].url], err |-> <<>>]

\* Variant: a URL that was already printed is not printed again.
Emit_Dedup(feeds, opml, encoded) ==
  IF feeds = <<>>
    THEN [end |-> "ok", out |-> <<>>, err |-> << <<"No feeds found.">> >>]
  ELSE IF opml
    THEN IF encoded THEN [end |-> "ok", out |-> <<OpmlDocument(feeds)>>, err |-> <<>>]
                    ELSE [end |-> "error", out |-> <<>>, err |-> <<>>]
  ELSE [end |-> "ok",
        out |-> LET first == {k \in 1..Len(feeds) :
                               \A m \in 1..(k - 1) : feeds[m].url # feeds[k].url}
                IN [k \in 1..Cardinality(first) |->
                      feeds[CHOOSE f \in first :
                              Cardinality({g \in first : g <= f}) = k].url],
        err |-> <<>>]

\* What main prints for feeds_to_output = feeds, given whether
\* opml_document.to_string() succeeds: the end of main, the lines printed to
\* standard output and to standard error.
Emit(feeds, opml, encoded) ==
  IF feeds = <<>>
    THEN [end |-> "ok", out |-> <<>>, err |-> << <<"No feeds found.">> >>]
  ELSE IF opml
    THEN IF encoded THEN [end |-> "ok", out |-> <<OpmlDocument(feeds)>>, err |-> <<>>]
                    ELSE [end |-> "error", out |-> <<>>, err |-> <<>>]
  ELSE [end |-> "ok", out |-> [k \in 1..Len(feeds) |-> feeds[k].url], err |-> <<>>]

\* The empty check and the output loop, to the end of main.
Output ==
  /\ outcome = "running" /\ pc = "output"
  /\ \E encoded \in BOOLEAN :
       \E r \in {Emit(feeds_to_output, args.opml, encoded)} :
          /\ stdout' = stdout \o r.out
          /\ stderr' = stderr \o r.err
          /\ outcome' = r.end
  /\ pc' = "done"
  /\ UNCHANGED <<args, i, potential_feeds, feeds_to_output, http, collected, survivors>>

Next ==
  \/ CollectAppid
  \/ CollectUrl
  \/ CollectUser
  \/ VerifyFeed
  \/ AppendAll
  \/ Output

Spec == Init /\ [][Next]_vars

\* ------------------------------------------------------------ properties

Candidates == 1..Len(collected)

\* The GETs made to verify candidate k, in the order they were made.
GetsOf(k) == SelectSeq(http, LAMBDA g : g.cand = k)

\* The GETs of the games pages.
ScrapeGets == SelectSeq(http, LAMBDA g : g.cand = 0)

Survives(k) == \E j \in 1..Len(survivors) : survivors[j] = k

AnsweredXml(g) == g.resp.kind = "ok" /\ g.resp.content_type = "text/xml"

\* Every GET made for candidate k was answered with a response.
Answered(k) ==
  /\ GetsOf(k) # <<>>
  /\ \A n \in 1..Len(GetsOf(k)) : GetsOf(k)[n].resp.kind = "ok"

\* The primary URL answered text/xml, or there is a fallback URL and it did.
XmlFound(k) ==
  \/ AnsweredXml(GetsOf(k)[1])
  \/ /\ IsSome(collected[k].friendly_url)
     /\ Len(GetsOf(k)) = 2
     /\ AnsweredXml(GetsOf(k)[2])

UrlsOf(feeds) == [j \in 1..Len(feeds) |-> feeds[j].url]

Completed == pc = "done" /\ outcome = "ok"

\* C1: with --verify, a candidate whose GETs were all answered ends
\* Confirmed (is among the feeds to output, and its URL is printed when the
\* run prints URL lines) if and only if its primary URL, or its fallback
\* URL, answered text/xml; otherwise it is dropped.
C1_ConfirmedIffXml ==
  (args.verify /\ outcome # "running") =>
    \A k \in Candidates :
      Answered(k) =>
        /\ Survives(k) <=> XmlFound(k)
        /\ (Completed /\ ~args.opml /\ XmlFound(k)) =>
             \E j \in 1..Len(stdout) : stdout[j] = GetsOf(k)[Len(GetsOf(k))].url

\* C2: the URL of every feed to output is the URL that answered text/xml:
\* the candidate's own URL when that answered text/xml, the friendly URL
\* when the own URL did not and the friendly URL did; without --verify the
\* URL is the candidate's own.  These are the URL lines printed.
C2_EmittedUrlAnsweredXml ==
  /\ \A j \in 1..Len(feeds_to_output) :
       LET c == collected[survivors[j]]
           g == GetsOf(survivors[j])
           url == feeds_to_output[j].url
       IN IF ~args.verify THEN url = c.url
          ELSE /\ g # <<>>
               /\ AnsweredXml(g[Len(g)]) /\ g[Len(g)].url = url
               /\ AnsweredXml(g[1]) => url = c.url
               /\ ~AnsweredXml(g[1]) =>
                    IsSome(c.friendly_url) /\ Len(g) = 2 /\ url = c.friendly_url.val
  /\ (Completed /\ ~args.opml) => stdout = UrlsOf(feeds_to_output)

C2_Witness ==
  /\ Completed /\ ~args.opml
  /\ \E j \in 1..Len(feeds_to_output) :
       /\ feeds_to_output[j].url # collected[survivors[j]].url
       /\ stdout[j] = collected[survivors[j]].friendly_url.val

\* The response that made candidate k valid lacks one of the two markers.
MalformedConfirmed(k) ==
  /\ GetsOf(k) # <<>>
  /\ LET g == GetsOf(k)[Len(GetsOf(k))]
     IN /\ AnsweredXml(g)
        /\ (Find(g.resp.body, TITLE_OPEN) = 0 \/ Find(g.resp.body, TITLE_CLOSE) = 0)

\* C3: a text/xml response without the <title> or the </title> marker
\* fails its candidate only: the candidate is dropped and the run goes on,
\* it does not crash.
C3_MalformedBodyDropsOnlyTheCandidate ==
  \A k \in Candidates :
    MalformedConfirmed(k) => outcome # "panic" /\ ~Survives(k)

\* The feed URLs the inputs of the model stand for.
FEED_620 == <<"https://steamcommunity.com/games/", "6", "2", "0", "/rss/">>
FEED_400 == <<"https://steamcommunity.com/games/", "4", "0", "0", "/rss/">>
FEED_220 == <<"https://steamcommunity.com/games/", "2", "2", "0", "/rss/">>

RECURSIVE Flatten(_)
Flatten(ss) == IF ss = <<>> THEN <<>> ELSE ss[1] \o Flatten(Tail(ss))

\* The feed URLs expected of the inputs, class by class, in input order,
\* with the games of every page fetched in page order.
ExpectedUrls ==
  [k \in 1..Len(args.appid) |-> FEED_620]
    \o Flatten([k \in 1..Len(args.url) |->
                  IF args.url[k] = URL_STORE_UPPER THEN <<FEED_400>> ELSE <<>>])
    \o Flatten([k \in 1..Len(ScrapeGets) |->
                  IF ScrapeGets[k].resp.kind # "ok" THEN <<>>
                  ELSE IF ScrapeGets[k].resp.body = PAGE_ONE THEN <<FEED_220>>
                  ELSE IF ScrapeGets[k].resp.body = PAGE_TWO THEN <<FEED_400, FEED_620>>
                  ELSE <<>>])

Collecting == pc \in {"appid", "url", "user"}

\* C4: the candidates are those of the --appid inputs, then of the --url
\* inputs, then of the --user inputs, in input order and with duplicates;
\* the feeds to output are the surviving candidates in that same order
\* (all of them without --verify), and a run that prints URL lines prints
\* one line for each of them, in order.
C4_OutputInCollectionOrder ==
  /\ ~Collecting => UrlsOf(collected) = ExpectedUrls
  /\ \A j \in 1..Len(survivors) :
       /\ survivors[j] \in Candidates
       /\ j > 1 => survivors[j - 1] < survivors[j]
       /\ feeds_to_output[j].url \in
            {collected[survivors[j]].url} \cup
              (IF IsSome(collected[survivors[j]].friendly_url)
                 THEN {collected[survivors[j]].friendly_url.val} ELSE {})
  /\ Len(feeds_to_output) = Len(survivors)
  /\ (pc \in {"output", "done"} /\ ~args.verify) =>
       UrlsOf(feeds_to_output) = UrlsOf(collected)
  /\ (pc \in {"output", "done"} /\ args.verify) =>
       \A k \in Candidates : Survives(k) <=> XmlFound(k)
  /\ (Completed /\ ~args.opml) => stdout = UrlsOf(feeds_to_output)

C4_Witness ==
  /\ Completed /\ ~args.opml /\ args.verify
  /\ Len(collected) = 3
  /\ stdout = <<FEED_400, FEED_400>>

\* C5: a games page without the games array contributes no candidate and
\* two lines on standard error; the candidates collected so far are kept and
\* the run goes on with the next input.
C5_UnscrapablePageIsSkipped ==
  [][(/\ pc = "user"
      /\ Len(http') = Len(http) + 1
      /\ http'[Len(http')].resp = Ok("text/html", PAGE_PRIVATE))
     => /\ potential_feeds' = potential_feeds
        /\ collected' = collected
        /\ stderr' = stderr \o
             << <<"Couldn't scan games from: ">> \o http'[Len(http')].url,
                <<"Make sure \"Game Details\" in Privacy Settings is set to Public.">> >>
        /\ stdout' = stdout
        /\ outcome' = "running"
        /\ IF i < Len(args.user) THEN pc' = "user" /\ i' = i + 1
           ELSE pc' \in {"verify", "append", "output"}]_vars

C5_Witness ==
  /\ Completed /\ stdout # <<>>
  /\ Len(ScrapeGets) = 2
  /\ ScrapeGets[1].resp = Ok("text/html", PAGE_PRIVATE)
  /\ Len(stderr) = 2

\* C6: a --url input that is no store URL, or whose digits are no usize,
\* and a --user input that is neither an identifier nor a profile URL, are
\* passed over: no candidate, no GET, nothing printed, and the run goes on
\* with the next input.
C6_UnresolvableInputIsSkipped ==
  [][(\/ pc = "url" /\ args.url[i] \in {URL_EXAMPLE, URL_OVERFLOW}
      \/ pc = "user" /\ args.user[i] = USER_BAD)
     => /\ potential_feeds' = potential_feeds
        /\ collected' = collected
        /\ http' = http
        /\ stderr' = stderr
        /\ stdout' = stdout
        /\ outcome' = "running"
        /\ IF i < Len(args[pc]) THEN pc' = pc /\ i' = i + 1
           ELSE pc' \in {"user", "verify", "append", "output"} \ {pc}]_vars

C6_Witness ==
  /\ args.url = <<URL_OVERFLOW>> /\ args.user = <<USER_BAD>>
  /\ Completed /\ http = <<>>
  /\ stderr = << <<"No feeds found.">> >>

\* A GET that failed, or a games page whose array is no JSON array.
Fatal(g) ==
  \/ g.resp.kind # "ok"
  \/ g.cand = 0 /\ g.resp.body = PAGE_ONE_LINE

\* C7: a failed GET and a games array that cannot be parsed end the run
\* with an error and nothing on standard output; standard output is
\* written only by a run that has handled every input and, with --verify,
\* every candidate.
C7_FatalAbortsBeforeOutput ==
  /\ (\E n \in 1..Len(http) : Fatal(http[n])) =>
       outcome = "error" /\ pc # "done" /\ Fatal(http[Len(http)])
  /\ outcome = "error" => stdout = <<>>
  /\ stdout # <<>> =>
       /\ Completed
       /\ Len(ScrapeGets) = Cardinality({k \in 1..Len(args.user) : args.user[k] # USER_BAD})
       /\ args.verify => \A k \in Candidates : GetsOf(k) # <<>>

C7_Witness ==
  /\ outcome = "error" /\ pc = "verify"
  /\ feeds_to_output # <<>>
  /\ stdout = <<>>

\* C8: a run that ends with no feed to output prints "No feeds found."
\* once on standard error, nothing on standard output, and ends successfully.
C8_NoFeedsFound ==
  (pc = "done" /\ feeds_to_output = <<>>) =>
    /\ outcome = "ok"
    /\ stdout = <<>>
    /\ Cardinality({n \in 1..Len(stderr) : stderr[n] = <<"No feeds found.">>}) = 1

C8_Witness ==
  /\ pc = "done" /\ args.opml /\ args.verify
  /\ collected # <<>> /\ feeds_to_output = <<>>
  /\ stderr = << <<"No feeds found.">> >>

\* The text between the first <title> and the first </title> after it;
\* None when there is no such pair.
TitleBetweenMarkers(body) ==
  LET open == Find(body, TITLE_OPEN)
      close == IF open = 0 THEN 0 ELSE FindFrom(body, TITLE_CLOSE, open + Len(TITLE_OPEN))
  IN IF close = 0 THEN None
     ELSE Some(SubSeq(body, open + Len(TITLE_OPEN), close - 1))

\* C9: a candidate made valid by a body that holds <title> and a </title>
\* after it is output with the text between the two as its text.
C9_TitleIsTextBetweenMarkers ==
  \A k \in Candidates :
    (GetsOf(k) # <<>> /\ AnsweredXml(GetsOf(k)[Len(GetsOf(k))])
       /\ IsSome(TitleBetweenMarkers(GetsOf(k)[Len(GetsOf(k))].resp.body)))
    => \E j \in 1..Len(survivors) :
         /\ survivors[j] = k
         /\ feeds_to_output[j].text =
              TitleBetweenMarkers(GetsOf(k)[Len(GetsOf(k))].resp.body)

\* C10: verification makes one or two GETs for each candidate, candidate
\* after candidate: first the candidate's URL, then the friendly URL if and
\* only if the first response was not text/xml and there is a friendly URL.
C10_OneOrTwoGetsInOrder ==
  /\ \A n \in 1..(Len(http) - 1) : http[n].cand <= http[n + 1].cand
  /\ \A k \in Candidates :
       LET g == GetsOf(k)
       IN /\ Len(g) <= 2
          /\ g # <<>> =>
               /\ g[1].url = collected[k].url
               /\ (Len(g) = 2) <=>
                    (g[1].resp.kind = "ok" /\ ~AnsweredXml(g[1])
                       /\ IsSome(collected[k].friendly_url))
               /\ Len(g) = 2 => g[2].url = collected[k].friendly_url.val
               /\ k > 1 => GetsOf(k - 1) # <<>>
               /\ k > 1 => GetsOf(k - 1)[Len(GetsOf(k - 1))].resp.kind = "ok"
          /\ (g # <<>>) <=>
               (/\ args.verify
                /\ \/ pc \in {"output", "done"}
                   \/ pc = "verify" /\ (k < i \/ (k = i /\ outcome # "running")))

C10_Witness ==
  \E k \in Candidates :
    /\ k + 1 \in Candidates
    /\ Len(GetsOf(k)) = 2
    /\ Len(GetsOf(k + 1)) = 1
====
